---- MODULE Spec2Model ----
(***************************************************************************)
(* Request-dispatch pipeline of KaliSocialMediaScraper:                    *)
(*   scraper/core/rate_limiter.py   RateLimiter                            *)
(*   scraper/core/proxy_manager.py  ProxyManager                           *)
(*   scraper/core/base_scraper.py   BaseScraper.make_request               *)
(*                                                                         *)
(* Time is counted in centiseconds (1/100 s), so that every cooldown       *)
(* period of the built-in table and its +-10% jitter is an integer.        *)
(* The backoff multiplier is a float in the code; here it is the exact     *)
(* rational <<numerator, denominator>> in lowest terms.                    *)
(***************************************************************************)
EXTENDS Integers, Sequences, FiniteSets, Bags, TLC

(***************************************************************************)
(* Time units                                                              *)
(***************************************************************************)
Second == 100
Minute == 60 * Second
Hour   == 60 * Minute
Day    == 24 * Hour

\* datetime.min: "no request yet". Every reader treats it as infinitely old.
DatetimeMin == -1

\* None
None == "None"

(***************************************************************************)
(* Exact arithmetic on the backoff multiplier                              *)
(***************************************************************************)
RECURSIVE GCD(_, _)
GCD(a, b) == IF b = 0 THEN a ELSE GCD(b, a % b)

Norm(q) == LET g == GCD(q[1], q[2]) IN <<q[1] \div g, q[2] \div g>>

RMul(q, n, d) == Norm(<<q[1] * n, q[2] * d>>)

RLeq(p, q) == p[1] * q[2] <= q[1] * p[2]

RLess(p, q) == p[1] * q[2] < q[1] * p[2]

RMin(p, q) == IF RLeq(p, q) THEN p ELSE q

RMax(p, q) == IF RLeq(p, q) THEN q ELSE p

ROne == <<1, 1>>

Max(a, b) == IF a >= b THEN a ELSE b

Min(a, b) == IF a <= b THEN a ELSE b

(***************************************************************************)
(* Bounds of the model                                                     *)
(***************************************************************************)
\* deque(maxlen=1000) of the request history, scaled down together with the
\* custom rate limits below (the proportions of the built-in table are kept:
\* 'general' has requests_per_day = 2000 > maxlen, 'twitter' 1000 = maxlen).
HistMaxLen == 2

\* most acquire() grants explored per key between resets
MaxGrants == 4

\* most burst decrements pending at once
MaxTasks == 3

\* instants of the rate limiter's clock: s seconds + m minutes + h hours
MaxSec == 1
MaxMin == 1
MaxHour == 1

\* direct mark_request_success / mark_request_failed calls keep the backoff
\* multiplier at or below MaxMult, with a denominator of at most MaxDen
MaxMult == 2
MaxDen == 5

\* number of concurrently running tasks (requests)
NumTasks == 2

\* most success reports recorded on the proxy list in a run
MaxSuccess == 1

\* longest working_proxies list at which another validation cycle is started
MaxWorking == 1

\* most failure reports recorded on the proxy list in a run
MaxFailures == 3

\* attempts of all calls of make_request together in one run
MaxAttempts == 3

\* reports made on a key before a run of rate-limit failures begins
MaxReports == 6

\* mark_request_success / mark_request_failed calls made on a key by
\* concurrent callers
MaxLog == 3

\* reports made on a key before a run of successes begins
MaxFailed == 3

(***************************************************************************)
(* RateLimiter configuration (rate_limiter.py: RateLimit, __init__)        *)
(***************************************************************************)
RateLimit(rpm, rph, rpd, burst, cooldown) ==
    [requests_per_minute |-> rpm, requests_per_hour |-> rph,
     requests_per_day |-> rpd, burst_limit |-> burst,
     cooldown_period |-> cooldown, jitter_range |-> 10]

BuiltinPlatforms ==
    {"twitter", "instagram", "facebook", "linkedin", "tiktok", "general"}

\* a destination key with no entry in the built-in rate_limits
UnknownKey == "mystery"

Keys == BuiltinPlatforms \cup {UnknownKey}

BuiltinRateLimits ==
    [k \in BuiltinPlatforms |->
        CASE k = "twitter"   -> RateLimit(15, 300, 1000, 5, 200)
          [] k = "instagram" -> RateLimit(10, 200, 500, 3, 300)
          [] k = "facebook"  -> RateLimit(20, 400, 1000, 8, 250)
          [] k = "linkedin"  -> RateLimit(8, 150, 300, 2, 300)
          [] k = "tiktok"    -> RateLimit(12, 250, 600, 4, 250)
          [] k = "general"   -> RateLimit(30, 500, 2000, 10, 100)]

\* self.max_backoff = 60.0
max_backoff == <<60, 1>>

\* limits installed with set_rate_limit: the built-in proportions at the
\* scale of HistMaxLen.  The first is shaped like 'general' (the day ceiling
\* is above the history's maxlen), the second like 'twitter' (equal to it).
CustomLimits ==
    { RateLimit(1, 2, 3, 1, 100),
      RateLimit(2, 2, 2, 2, 100) }

\* key the direct RateLimiter calls are made on: unknown to the built-in
\* table (it falls back to 'general') until set_rate_limit configures it
RLKeys == {UnknownKey}

VARIABLES
    now,                 \* datetime.now()
    enabled,             \* RateLimiter.enabled
    rate_limits,         \* RateLimiter.rate_limits
    request_history,     \* RateLimiter.request_history
    last_request_time,   \* RateLimiter.last_request_time
    burst_count,         \* RateLimiter.burst_count
    backoff_multiplier,  \* RateLimiter.backoff_multiplier
    decay_tasks,         \* pending _reset_burst_count tasks: bag of <<key, due>>
    acquire_result,      \* latest acquire(): <<key, "True" | "False" | "KeyError">>
    granted,             \* observer: timestamps acquire() granted since the
                         \* key's last reset, never truncated
    use_proxies,         \* ProxyManager.use_proxies / BaseScraper.use_proxies
    proxies,             \* ProxyManager.proxies: sequence of Proxy records
    working_proxies,     \* ProxyManager.working_proxies: the urls of its
                         \* Proxy objects, in list order
    failed_proxies,      \* ProxyManager.failed_proxies
    last_rotation,       \* ProxyManager.last_rotation
    current_proxy,       \* ProxyManager.current_proxy
    cache_file,          \* contents of data/proxy_cache.json
    pm_op,               \* per task: the ProxyManager coroutine it is inside
    pm_pc,               \* per task: where that coroutine is suspended
    pm_todo,             \* per task: proxies its _validate_proxies still tests
    pm_ret,              \* per task: value its latest get_proxy() returned
    fail_run,            \* observer, per url: mark_proxy_failed calls since
                         \* the last mark_proxy_success, those the cache
                         \* file recorded included
    evicted,             \* observer: urls whose fail_run reached
                         \* max_proxy_retries, not validated since
    cycle_failed,        \* observer, per task: urls that failed every test
                         \* endpoint in its current validation cycle
    platform,            \* BaseScraper.platform
    max_retries,         \* BaseScraper.max_retries
    max_concurrent_requests,  \* BaseScraper.max_concurrent_requests
    session,             \* BaseScraper.session: "closed", "initializing", "open"
    sem,                 \* free slots of BaseScraper.semaphore
    pc,                  \* per task: where its make_request call stands
    attempt,             \* per task: tenacity's attempt_number
    proxy,               \* per task: the proxy of the current attempt
    wake,                \* per task: when its asyncio.sleep ends
    outcome,             \* per task: how its latest finished attempt ended
    sent_at,             \* observer, per task: start of its latest transport call
    t429,                \* observer, per task: time of its latest 429
    calm,                \* observer, per task: no success was reported on
                         \* the key since its latest 429
    reported             \* observer kept where callers and proxy sources
                         \* are driven directly: fail and success count the
                         \* mark_proxy_failed and mark_proxy_success calls
                         \* per known url, log lists per key the
                         \* mark_request_* calls in call order, down is the
                         \* set of sources that failed in the latest gather
                         \* of _fetch_proxies

rlVars == <<enabled, rate_limits, request_history, last_request_time,
            burst_count, backoff_multiplier, decay_tasks, acquire_result,
            granted>>

pmVars == <<use_proxies, proxies, working_proxies, failed_proxies,
            last_rotation, current_proxy, cache_file, pm_op, pm_pc, pm_todo,
            pm_ret, fail_run, evicted, cycle_failed>>

dVars == <<platform, max_retries, max_concurrent_requests, session, sem, pc,
           attempt, proxy, wake, outcome, sent_at, t429, calm, reported>>

vars == <<now, rlVars, pmVars, dVars>>

(***************************************************************************)
(* RateLimiter                                                             *)
(***************************************************************************)
\* self.rate_limits.get(platform, self.rate_limits["general"])
RateLimitFor(k) ==
    IF k \in DOMAIN rate_limits THEN rate_limits[k] ELSE rate_limits["general"]

\* sum(1 for req_time in history if req_time > cutoff)
CountAfter(history, cutoff) ==
    Cardinality({i \in 1..Len(history) : history[i] > cutoff})

\* limits that are passed only when exceeded
_check_rate_limits_exceeded(k, rl) ==
    LET history == request_history[k]
        requests_last_minute == CountAfter(history, now - Minute)
        requests_last_hour   == CountAfter(history, now - Hour)
        requests_last_day    == CountAfter(history, now - Day)
    IN  IF requests_last_minute > rl.requests_per_minute THEN FALSE
        ELSE IF requests_last_hour > rl.requests_per_hour THEN FALSE
        ELSE IF requests_last_day > rl.requests_per_day THEN FALSE
        ELSE IF burst_count[k] > rl.burst_limit THEN FALSE
        ELSE TRUE

_check_rate_limits(k, rl) ==
    LET history == request_history[k]
        requests_last_minute == CountAfter(history, now - Minute)
        requests_last_hour   == CountAfter(history, now - Hour)
        requests_last_day    == CountAfter(history, now - Day)
    IN  IF requests_last_minute >= rl.requests_per_minute THEN FALSE
        ELSE IF requests_last_hour >= rl.requests_per_hour THEN FALSE
        ELSE IF requests_last_day >= rl.requests_per_day THEN FALSE
        ELSE IF burst_count[k] >= rl.burst_limit THEN FALSE
        ELSE TRUE

\* _is_in_backoff raises KeyError: self.rate_limits[platform] has no entry
BackoffKeyError(k) ==
    /\ RLess(ROne, backoff_multiplier[k])
    /\ k \notin DOMAIN rate_limits

_is_in_backoff(k) ==
    IF RLeq(backoff_multiplier[k], ROne) THEN FALSE
    ELSE IF last_request_time[k] = DatetimeMin THEN FALSE
    ELSE (now - last_request_time[k]) * backoff_multiplier[k][2]
            < rate_limits[k].cooldown_period * backoff_multiplier[k][1]

\* deque(maxlen=...).append
DequeAppend(history, t) ==
    IF Len(history) >= HistMaxLen
    THEN Append(SubSeq(history, Len(history) - HistMaxLen + 2, Len(history)), t)
    ELSE Append(history, t)

\* a request recorded without its burst decrement being scheduled
_record_request_unscheduled(k) ==
    /\ request_history' = [request_history EXCEPT ![k] = DequeAppend(@, now)]
    /\ last_request_time' = [last_request_time EXCEPT ![k] = now]
    /\ burst_count' = [burst_count EXCEPT ![k] = @ + 1]
    /\ UNCHANGED decay_tasks

_record_request(k) ==
    /\ request_history' = [request_history EXCEPT ![k] = DequeAppend(@, now)]
    /\ last_request_time' = [last_request_time EXCEPT ![k] = now]
    /\ burst_count' = [burst_count EXCEPT ![k] = @ + 1]
    /\ decay_tasks' = decay_tasks (+)
                        SetToBag({<<k, now + RateLimitFor(k).cooldown_period>>})

\* async def acquire(platform)
acquire(k) ==
    /\ Len(granted[k]) < MaxGrants
    /\ UNCHANGED <<now, enabled, rate_limits, backoff_multiplier>>
    /\ IF ~enabled
       THEN /\ acquire_result' = <<k, "True">>
            /\ UNCHANGED <<request_history, last_request_time, burst_count,
                           decay_tasks, granted>>
       ELSE IF BackoffKeyError(k)
       THEN /\ acquire_result' = <<k, "KeyError">>
            /\ UNCHANGED <<request_history, last_request_time, burst_count,
                           decay_tasks, granted>>
       ELSE IF _is_in_backoff(k) \/ ~_check_rate_limits(k, RateLimitFor(k))
       THEN /\ acquire_result' = <<k, "False">>
            /\ UNCHANGED <<request_history, last_request_time, burst_count,
                           decay_tasks, granted>>
       ELSE /\ _record_request(k)
            /\ acquire_result' = <<k, "True">>
            /\ granted' = [granted EXCEPT ![k] = Append(@, now)]

\* a decrement task that ends without touching the counter
_reset_burst_count_lost(t) ==
    /\ BagIn(t, decay_tasks)
    /\ now >= t[2]
    /\ decay_tasks' = decay_tasks (-) SetToBag({t})
    /\ UNCHANGED <<now, enabled, rate_limits, request_history,
                   last_request_time, burst_count, backoff_multiplier,
                   acquire_result, granted>>

\* async def _reset_burst_count(platform, delay), after its sleep
_reset_burst_count(t) ==
    /\ BagIn(t, decay_tasks)
    /\ now >= t[2]
    /\ burst_count' = [burst_count EXCEPT ![t[1]] = Max(0, @ - 1)]
    /\ decay_tasks' = decay_tasks (-) SetToBag({t})
    /\ UNCHANGED <<now, enabled, rate_limits, request_history,
                   last_request_time, backoff_multiplier, acquire_result,
                   granted>>

\* a decay without the floor at 1.0
SuccessBackoff_unfloored(b) ==
    IF RLess(ROne, b) THEN RMul(b, 4, 5) ELSE b

\* the new multiplier of mark_request_success
SuccessBackoff(b) ==
    IF RLess(ROne, b) THEN RMax(ROne, RMul(b, 4, 5)) ELSE b

\* a multiplier that doubles without a ceiling
FailedBackoff_uncapped(b, error_type) ==
    IF error_type \in {"rate_limit", "429", "too_many_requests"}
    THEN RMul(b, 2, 1)
    ELSE IF error_type \in {"timeout", "connection_error"}
    THEN RMul(b, 3, 2)
    ELSE b

\* the new multiplier of mark_request_failed
FailedBackoff(b, error_type) ==
    IF error_type \in {"rate_limit", "429", "too_many_requests"}
    THEN RMin(max_backoff, RMul(b, 2, 1))
    ELSE IF error_type \in {"timeout", "connection_error"}
    THEN RMin(max_backoff, RMul(b, 3, 2))
    ELSE b

\* def mark_request_success(platform): the RateLimiter fields it assigns
mark_request_success(k) ==
    /\ backoff_multiplier' =
            [backoff_multiplier EXCEPT ![k] = SuccessBackoff(@)]
    /\ UNCHANGED last_request_time

\* a limiter that ignores the failure report
mark_request_failed_ignored(k, error_type) ==
    UNCHANGED <<backoff_multiplier, last_request_time>>

\* def mark_request_failed(platform, error_type): the fields it assigns
mark_request_failed(k, error_type) ==
    /\ backoff_multiplier' =
            [backoff_multiplier EXCEPT ![k] = FailedBackoff(@, error_type)]
    /\ last_request_time' =
            IF error_type \in {"rate_limit", "429", "too_many_requests"}
            THEN [last_request_time EXCEPT ![k] = now]
            ELSE last_request_time

\* a reset that leaves the backoff state of the key as it is
reset_keeps_backoff(k) ==
    /\ request_history' = [request_history EXCEPT ![k] = <<>>]
    /\ burst_count' = [burst_count EXCEPT ![k] = 0]
    /\ UNCHANGED <<backoff_multiplier, last_request_time>>

\* def reset(platform)
reset(k) ==
    /\ request_history' = [request_history EXCEPT ![k] = <<>>]
    /\ burst_count' = [burst_count EXCEPT ![k] = 0]
    /\ backoff_multiplier' = [backoff_multiplier EXCEPT ![k] = ROne]
    /\ last_request_time' = [last_request_time EXCEPT ![k] = DatetimeMin]

\* def reset(None): the defaultdicts are cleared
reset_all ==
    /\ request_history' = [k \in Keys |-> <<>>]
    /\ burst_count' = [k \in Keys |-> 0]
    /\ backoff_multiplier' = [k \in Keys |-> ROne]
    /\ last_request_time' = [k \in Keys |-> DatetimeMin]

\* def set_rate_limit(platform, rate_limit)
set_rate_limit(k, rl) ==
    rate_limits' = [x \in DOMAIN rate_limits \cup {k} |->
                        IF x = k THEN rl ELSE rate_limits[x]]

\* def enable()
enable == enabled' = TRUE

\* def disable()
disable == enabled' = FALSE

\* RateLimiter.__init__
RLInit ==
    /\ enabled = TRUE
    /\ rate_limits = BuiltinRateLimits
    /\ request_history = [k \in Keys |-> <<>>]
    /\ last_request_time = [k \in Keys |-> DatetimeMin]
    /\ burst_count = [k \in Keys |-> 0]
    /\ backoff_multiplier = [k \in Keys |-> ROne]
    /\ decay_tasks = EmptyBag
    /\ acquire_result = <<None, None>>
    /\ granted = [k \in Keys |-> <<>>]

(***************************************************************************)
(* ProxyManager (proxy_manager.py)                                         *)
(***************************************************************************)
\* proxy addresses the sources can list
Urls == {"p1", "p2"}

Tasks == 1..NumTasks

\* ProxyManager(max_proxy_retries=3)
max_proxy_retries == 3

\* ProxyManager(rotation_interval=300), seconds
rotation_interval == 300

\* @dataclass Proxy; a fetched Proxy has is_working=True and zero counters
Proxy(url, is_working, fail_count, success_count) ==
    [url |-> url, is_working |-> is_working, fail_count |-> fail_count,
     success_count |-> success_count]

NewProxy(url) == Proxy(url, TRUE, 0, 0)

\* [p.url for p in seq]
UrlsOf(seq) == {seq[i].url : i \in 1..Len(seq)}

\* index of the first proxy with this url, 0 if there is none
\* (for proxy in self.proxies: if proxy.url == proxy_url: ... break)
RECURSIVE FirstIndex(_, _, _)
FirstIndex(seq, url, i) ==
    IF i > Len(seq) THEN 0
    ELSE IF seq[i].url = url THEN i
    ELSE FirstIndex(seq, url, i + 1)

\* [p for p in self.working_proxies if p.url != proxy_url]
RECURSIVE Without(_, _)
Without(seq, url) ==
    IF seq = <<>> THEN <<>>
    ELSE IF Head(seq) = url THEN Without(Tail(seq), url)
    ELSE <<Head(seq)>> \o Without(Tail(seq), url)

\* the "Remove duplicates" loop of _fetch_proxies: first occurrence wins
RECURSIVE Dedup(_, _)
Dedup(seq, seen) ==
    IF seq = <<>> THEN <<>>
    ELSE IF Head(seq).url \in seen THEN Dedup(Tail(seq), seen)
    ELSE <<Head(seq)>> \o Dedup(Tail(seq), seen \cup {Head(seq).url})

\* elements of a list
Range(seq) == {seq[i] : i \in 1..Len(seq)}

\* _load_cached_proxies: the two lists built from a cache file
RECURSIVE CachedWorking(_)
CachedWorking(items) ==
    IF items = <<>> THEN <<>>
    ELSE IF Head(items).is_working
         THEN <<Head(items).url>> \o CachedWorking(Tail(items))
         ELSE CachedWorking(Tail(items))

\* os.path.exists(self.cache_file) is false
NoCache == [exists |-> FALSE, timestamp |-> 0, proxies |-> <<>>]

CacheFile(timestamp, items) ==
    [exists |-> TRUE, timestamp |-> timestamp, proxies |-> items]

CachedProxies(cache) == IF cache.exists THEN cache.proxies ELSE <<>>

\* _save_cached_proxies
_save_cached_proxies ==
    cache_file' = CacheFile(now, proxies')

\* _should_rotate
_should_rotate ==
    \/ now - last_rotation > rotation_interval * Second
    \/ Len(working_proxies) < 5

\* permutations of a list (random.shuffle)
Shuffles(seq) ==
    {q \in [1..Len(seq) -> Range(seq)] :
        \A x \in Range(seq) :
            Cardinality({i \in 1..Len(seq) : q[i] = x}) =
            Cardinality({i \in 1..Len(seq) : seq[i] = x})}

\* a choice among every known proxy
ChooseProxy_known(t, working) ==
    IF proxies # <<>>
    THEN \E i \in 1..Len(proxies) :
            /\ current_proxy' = proxies[i].url
            /\ pm_ret' = [pm_ret EXCEPT ![t] = proxies[i].url]
    ELSE /\ pm_ret' = [pm_ret EXCEPT ![t] = None]
         /\ UNCHANGED current_proxy

\* the end of get_proxy: random.choice(self.working_proxies) or None
ChooseProxy(t, working) ==
    IF working # <<>>
    THEN \E i \in 1..Len(working) :
            /\ current_proxy' = working[i]
            /\ pm_ret' = [pm_ret EXCEPT ![t] = working[i]]
    ELSE /\ pm_ret' = [pm_ret EXCEPT ![t] = None]
         /\ UNCHANGED current_proxy

\* async def initialize(), up to the await of the source fetches
initialize(t) ==
    /\ pm_pc[t] = "idle"
    /\ IF ~use_proxies
       THEN UNCHANGED <<pm_op, pm_pc>>
       ELSE /\ pm_op' = [pm_op EXCEPT ![t] = "initialize"]
            /\ pm_pc' = [pm_pc EXCEPT ![t] = "fetching"]
    /\ UNCHANGED <<use_proxies, proxies, working_proxies, failed_proxies,
                   last_rotation, current_proxy, cache_file, pm_todo, pm_ret,
                   fail_run, evicted, cycle_failed>>

\* async def get_proxy(), up to its return or to the await of the source
\* fetches of _rotate_proxies
get_proxy(t) ==
    /\ pm_pc[t] = "idle"
    /\ IF ~use_proxies
       THEN /\ pm_ret' = [pm_ret EXCEPT ![t] = None]
            /\ UNCHANGED <<working_proxies, last_rotation, current_proxy,
                           pm_op, pm_pc>>
       ELSE IF _should_rotate
       THEN /\ last_rotation' = now
            /\ IF Len(working_proxies) >= 10
               THEN /\ working_proxies' \in Shuffles(working_proxies)
                    /\ ChooseProxy(t, working_proxies')
                    /\ UNCHANGED <<pm_op, pm_pc>>
               ELSE /\ pm_op' = [pm_op EXCEPT ![t] = "get_proxy"]
                    /\ pm_pc' = [pm_pc EXCEPT ![t] = "fetching"]
                    /\ UNCHANGED <<working_proxies, current_proxy, pm_ret>>
       ELSE /\ ChooseProxy(t, working_proxies)
            /\ UNCHANGED <<working_proxies, last_rotation, pm_op, pm_pc>>
    /\ UNCHANGED <<use_proxies, proxies, failed_proxies, cache_file, pm_todo,
                   fail_run, evicted, cycle_failed>>

\* the four sources of _fetch_proxies: _fetch_from_proxylist,
\* _fetch_from_free_proxy_list, _fetch_from_proxynova, _fetch_from_geonode
Sources == 1..4

\* what a source lists when it can be reached
SourceList(i) ==
    CASE i = 1 -> <<"p1", "p2">>
      [] i = 2 -> <<"p1">>
      [] i = 3 -> <<>>
      [] i = 4 -> <<"p2", "p1">>

\* a gather in which the first failing source aborts the sources after it
FetchResults_abort(down) ==
    [i \in Sources |->
        IF \E j \in down : j <= i THEN "error" ELSE SourceList(i)]

\* what the gather of _fetch_proxies returns when the sources in down fail:
\* a failing source contributes [] (its own except) or an exception object
FetchResults(down) ==
    [i \in Sources |-> IF i \in down THEN "error" ELSE SourceList(i)]

RECURSIVE Extend(_, _, _)
Extend(list, results, i) ==
    IF i > Len(results) THEN list
    ELSE IF results[i] = "error" THEN Extend(list, results, i + 1)
    ELSE Extend(list \o [j \in 1..Len(results[i]) |-> NewProxy(results[i][j])],
                results, i + 1)

\* _fetch_proxies after its gather, and the start of _validate_proxies:
\* one validate_proxy task per proxy known at that moment
_fetch_proxies(t, results) ==
    /\ pm_pc[t] = "fetching"
    /\ proxies' = Dedup(Extend(proxies, results, 1), {})
    /\ pm_pc' = [pm_pc EXCEPT ![t] = "validating"]
    /\ pm_todo' = [pm_todo EXCEPT ![t] = UrlsOf(proxies')]
    /\ cycle_failed' = [cycle_failed EXCEPT ![t] = {}]
    /\ UNCHANGED <<use_proxies, working_proxies, failed_proxies,
                   last_rotation, current_proxy, cache_file, pm_op, pm_ret,
                   fail_run, evicted>>

\* _validate_proxies.validate_proxy(proxy): ok iff one test url answered 200
validate_proxy(t, url, ok) ==
    /\ pm_pc[t] = "validating"
    /\ url \in pm_todo[t]
    /\ pm_todo' = [pm_todo EXCEPT ![t] = @ \ {url}]
    /\ LET i == FirstIndex(proxies, url, 1) IN
       IF ok
       THEN /\ proxies' = [proxies EXCEPT ![i].is_working = TRUE]
            /\ working_proxies' = Append(working_proxies, url)
            /\ evicted' = evicted \ {url}
            /\ cycle_failed' = [x \in Tasks |-> cycle_failed[x] \ {url}]
       ELSE /\ proxies' = [proxies EXCEPT ![i].is_working = FALSE]
            /\ cycle_failed' = [cycle_failed EXCEPT ![t] = @ \cup {url}]
            /\ UNCHANGED <<working_proxies, evicted>>
    /\ UNCHANGED <<use_proxies, failed_proxies, last_rotation, current_proxy,
                   cache_file, pm_op, pm_pc, pm_ret, fail_run>>

\* the gather of _validate_proxies has completed: _save_cached_proxies, then
\* initialize returns, or get_proxy picks its proxy
validation_complete(t) ==
    /\ pm_pc[t] = "validating"
    /\ pm_todo[t] = {}
    /\ pm_pc' = [pm_pc EXCEPT ![t] = "idle"]
    /\ proxies' = proxies
    /\ _save_cached_proxies
    /\ IF pm_op[t] = "get_proxy"
       THEN ChooseProxy(t, working_proxies)
       ELSE UNCHANGED <<current_proxy, pm_ret>>
    /\ UNCHANGED <<use_proxies, working_proxies, failed_proxies,
                   last_rotation, pm_op, pm_todo, fail_run, evicted,
                   cycle_failed>>

\* async def mark_proxy_failed(proxy_url): the fields it assigns
mark_proxy_failed(url) ==
    LET i == FirstIndex(proxies, url, 1) IN
    IF ~use_proxies \/ i = 0
    THEN UNCHANGED <<proxies, working_proxies, failed_proxies, fail_run,
                     evicted, cycle_failed>>
    ELSE /\ proxies' = [proxies EXCEPT ![i].fail_count = @ + 1,
                                       ![i].is_working = FALSE]
         /\ IF proxies[i].fail_count + 1 >= max_proxy_retries
            THEN /\ failed_proxies' = failed_proxies \cup {url}
                 /\ working_proxies' = Without(working_proxies, url)
            ELSE UNCHANGED <<working_proxies, failed_proxies>>
         /\ fail_run' = [fail_run EXCEPT ![url] = @ + 1]
         /\ evicted' = IF fail_run[url] + 1 >= max_proxy_retries
                       THEN evicted \cup {url} ELSE evicted
         /\ UNCHANGED cycle_failed

\* a success report that also clears the failure count of the proxy
mark_proxy_success_clearing(url) ==
    LET i == FirstIndex(proxies, url, 1) IN
    IF ~use_proxies \/ i = 0
    THEN UNCHANGED <<proxies, working_proxies, failed_proxies, fail_run,
                     evicted, cycle_failed>>
    ELSE /\ proxies' = [proxies EXCEPT ![i].success_count = @ + 1,
                                       ![i].fail_count = 0,
                                       ![i].is_working = TRUE]
         /\ working_proxies' =
                IF url \notin Range(working_proxies)
                THEN Append(working_proxies, url)
                ELSE working_proxies
         /\ cycle_failed' = [x \in Tasks |-> cycle_failed[x] \ {url}]
         /\ fail_run' = [fail_run EXCEPT ![url] = 0]
         /\ UNCHANGED <<failed_proxies, evicted>>

\* async def mark_proxy_success(proxy_url): the fields it assigns
mark_proxy_success(url) ==
    LET i == FirstIndex(proxies, url, 1) IN
    IF ~use_proxies \/ i = 0
    THEN UNCHANGED <<proxies, working_proxies, failed_proxies, fail_run,
                     evicted, cycle_failed>>
    ELSE /\ proxies' = [proxies EXCEPT ![i].success_count = @ + 1,
                                       ![i].is_working = TRUE]
         /\ working_proxies' =
                IF url \notin Range(working_proxies)
                THEN Append(working_proxies, url)
                ELSE working_proxies
         /\ cycle_failed' = [x \in Tasks |-> cycle_failed[x] \ {url}]
         /\ fail_run' = [fail_run EXCEPT ![url] = 0]
         /\ UNCHANGED <<failed_proxies, evicted>>

\* cache files an earlier run can have left: none, or what
\* _save_cached_proxies wrote, just now or eight days ago
InitialCaches ==
    { NoCache,
      CacheFile(0, <<Proxy("p1", TRUE, 0, 0)>>),
      CacheFile(0, <<Proxy("p1", TRUE, 0, 0), Proxy("p2", FALSE, 1, 0)>>),
      CacheFile(0 - 8 * Day, <<Proxy("p1", TRUE, 0, 0)>>) }

\* the count a field of the record of url holds, 0 when url is not listed
CountOf(items, url, field) ==
    LET i == FirstIndex(items, url, 1) IN
    IF i = 0 THEN 0 ELSE items[i][field]

\* ProxyManager.__init__, which ends with _load_cached_proxies
PMInit ==
    /\ cache_file \in InitialCaches
    /\ proxies = CachedProxies(cache_file)
    /\ working_proxies = CachedWorking(CachedProxies(cache_file))
    /\ failed_proxies = {}
    /\ last_rotation = now
    /\ current_proxy = None
    /\ pm_op = [t \in Tasks |-> None]
    /\ pm_pc = [t \in Tasks |-> "idle"]
    /\ pm_todo = [t \in Tasks |-> {}]
    /\ pm_ret = [t \in Tasks |-> "unset"]
    /\ fail_run = [u \in Urls |-> CountOf(proxies, u, "fail_count")]
    /\ evicted = {}
    /\ cycle_failed = [t \in Tasks |-> {}]

(***************************************************************************)
(* BaseScraper.make_request (base_scraper.py)                              *)
(***************************************************************************)
\* @retry(stop=stop_after_attempt(3), ...)
stop_after_attempt == 3

\* @retry(wait=wait_exponential(multiplier=1, min=4, max=10)): the wait after
\* the attempt with this number failed
wait_exponential(attempt_number) ==
    Max(Max(0, 4 * Second), Min(1 * (2 ^ (attempt_number - 1)) * Second, 10 * Second))

\* random.uniform(-jitter_range, jitter_range), in percent: both ends and 0
Jitters(rl) == {0 - rl.jitter_range, 0, rl.jitter_range}

\* cooldown_period * backoff_multiplier * (1 + jitter), rounded down
JitteredDelay(rl, b, jitter) ==
    (rl.cooldown_period * b[1] * (100 + jitter)) \div (b[2] * 100)

\* a limiter that never asks for a delay
_calculate_delay_none(k, jitter) == 0

\* RateLimiter._calculate_delay
_calculate_delay(k, jitter) ==
    LET rl == RateLimitFor(k)
        delay == Max(0, JitteredDelay(rl, backoff_multiplier[k], jitter))
    IN  IF last_request_time[k] = DatetimeMin THEN 0
        ELSE IF now - last_request_time[k] < delay
        THEN delay - (now - last_request_time[k])
        ELSE 0

\* BaseScraper.__init__; the session is opened by initialize()
\* nothing has been reported
NoReports ==
    [fail |-> [u \in Urls |-> 0], success |-> [u \in Urls |-> 0],
     log |-> [k \in Keys |-> <<>>], down |-> {}]

DInit ==
    /\ session = "closed"
    /\ sem = max_concurrent_requests
    /\ pc = [t \in Tasks |-> "pending"]
    /\ attempt = [t \in Tasks |-> 0]
    /\ proxy = [t \in Tasks |-> None]
    /\ wake = [t \in Tasks |-> 0]
    /\ outcome = [t \in Tasks |-> None]
    /\ sent_at = [t \in Tasks |-> DatetimeMin]
    /\ t429 = [t \in Tasks |-> DatetimeMin]
    /\ calm = [t \in Tasks |-> FALSE]
    /\ reported = NoReports

\* self.session.request(..., proxy=p) is entered
Transport(t, p) ==
    /\ pc' = [pc EXCEPT ![t] = "in_flight"]
    /\ proxy' = [proxy EXCEPT ![t] = p]
    /\ sent_at' = [sent_at EXCEPT ![t] = now]

\* _make_request_with_retry from "Get proxy" to the transport call
SelectProxy(t) ==
    IF use_proxies
    THEN /\ get_proxy(t)
         /\ IF pm_pc'[t] = "idle"
            THEN Transport(t, pm_ret'[t])
            ELSE /\ pc' = [pc EXCEPT ![t] = "proxy_select"]
                 /\ UNCHANGED <<proxy, sent_at>>
    ELSE /\ Transport(t, None)
         /\ UNCHANGED pmVars

\* one call of _make_request_with_retry by tenacity: wait_if_needed, then on
\* to the proxy and the transport call when no sleep is needed
BeginAttempt(t, n, jitter) ==
    /\ attempt' = [attempt EXCEPT ![t] = n]
    /\ LET delay == _calculate_delay(platform, jitter) IN
       IF delay > 0
       THEN /\ pc' = [pc EXCEPT ![t] = "rate_wait"]
            /\ wake' = [wake EXCEPT ![t] = now + delay]
            /\ UNCHANGED <<pmVars, proxy, sent_at>>
       ELSE /\ SelectProxy(t)
            /\ UNCHANGED wake

\* BaseScraper.initialize
scraper_initialize ==
    /\ session = "closed"
    /\ IF use_proxies
       THEN /\ initialize(1)
            /\ session' = "initializing"
       ELSE /\ session' = "open"
            /\ UNCHANGED pmVars
    /\ UNCHANGED <<now, rlVars, platform, reported, max_retries,
                   max_concurrent_requests, sem, pc, attempt, proxy, wake,
                   outcome, sent_at, t429, calm>>

\* a semaphore that admits every caller
semaphore_acquire_unbounded == sem' = sem - 1

\* async with self.semaphore, entry: the caller goes on when a slot is free
semaphore_acquire == sem > 0 /\ sem' = sem - 1

\* a semaphore whose slot is not given back
semaphore_release_lost == sem' = sem

\* async with self.semaphore, exit
semaphore_release == sem' = sem + 1

\* async def make_request: the semaphore is taken and the first attempt begins
make_request(t) ==
    /\ session = "open"
    /\ pc[t] = "pending"
    /\ semaphore_acquire
    /\ \E jitter \in Jitters(RateLimitFor(platform)) : BeginAttempt(t, 1, jitter)
    /\ UNCHANGED <<now, rlVars, platform, reported, max_retries,
                   max_concurrent_requests, session, outcome, t429, calm>>

\* the sleep of wait_if_needed is over
rate_wait_over(t) ==
    /\ pc[t] = "rate_wait"
    /\ now >= wake[t]
    /\ SelectProxy(t)
    /\ UNCHANGED <<now, rlVars, platform, reported, max_retries,
                   max_concurrent_requests, session, sem, attempt, wake,
                   outcome, t429, calm>>

\* the gather of _fetch_proxies returns inside get_proxy or initialize
fetch_returns(t, down) ==
    /\ _fetch_proxies(t, FetchResults(down))
    /\ UNCHANGED <<now, rlVars, dVars>>

\* one validate_proxy task finishes
validate_returns(t, url, ok) ==
    /\ validate_proxy(t, url, ok)
    /\ UNCHANGED <<now, rlVars, dVars>>

\* _validate_proxies returns: initialize opens the session, get_proxy hands
\* its proxy to the attempt, which enters the transport call
rotation_returns(t) ==
    /\ validation_complete(t)
    /\ IF pm_op[t] = "get_proxy"
       THEN /\ Transport(t, pm_ret'[t])
            /\ UNCHANGED session
       ELSE /\ session' = "open"
            /\ UNCHANGED <<pc, proxy, sent_at>>
    /\ UNCHANGED <<now, rlVars, platform, reported, max_retries,
                   max_concurrent_requests, sem, attempt, wake, outcome,
                   t429, calm>>

\* an exception leaves _make_request_with_retry: tenacity sleeps and calls
\* again, or gives up after stop_after_attempt attempts and make_request
\* releases the semaphore
Raise(t, retryable) ==
    IF retryable /\ attempt[t] < stop_after_attempt
    THEN /\ pc' = [pc EXCEPT ![t] = "retry_wait"]
         /\ wake' = [wake EXCEPT ![t] = now + wait_exponential(attempt[t])]
         /\ UNCHANGED sem
    ELSE /\ pc' = [pc EXCEPT ![t] = "failed"]
         /\ semaphore_release
         /\ UNCHANGED wake

\* exceptions retry_if_exception_type((aiohttp.ClientError,
\* asyncio.TimeoutError)) retries: ClientResponseError is a ClientError
Retryable(exception) ==
    exception \in {"ClientResponseError", "ClientConnectionError",
                   "TimeoutError"}

\* response.status == 429
response_429(t) ==
    /\ pc[t] = "in_flight"
    /\ mark_request_failed(platform, "rate_limit")
    /\ IF proxy[t] # None
       THEN mark_proxy_failed(proxy[t])
       ELSE UNCHANGED <<proxies, working_proxies, failed_proxies, fail_run,
                        evicted, cycle_failed>>
    /\ outcome' = [outcome EXCEPT ![t] = "429"]
    /\ t429' = [t429 EXCEPT ![t] = now]
    /\ calm' = [calm EXCEPT ![t] = TRUE]
    /\ Raise(t, Retryable("ClientResponseError"))
    /\ UNCHANGED <<now, enabled, rate_limits, request_history, burst_count,
                   decay_tasks, acquire_result, granted, use_proxies,
                   last_rotation, current_proxy, cache_file, pm_op, pm_pc,
                   pm_todo, pm_ret, platform, reported, max_retries,
                   max_concurrent_requests, session, attempt, proxy, sent_at>>

\* response.status >= 400, not 429
response_error(t) ==
    /\ pc[t] = "in_flight"
    /\ IF proxy[t] # None
       THEN mark_proxy_failed(proxy[t])
       ELSE UNCHANGED <<proxies, working_proxies, failed_proxies, fail_run,
                        evicted, cycle_failed>>
    /\ outcome' = [outcome EXCEPT ![t] = "http_error"]
    /\ Raise(t, Retryable("ClientResponseError"))
    /\ UNCHANGED <<now, rlVars, use_proxies, last_rotation, current_proxy,
                   cache_file, pm_op, pm_pc, pm_todo, pm_ret, platform, reported,
                   max_retries, max_concurrent_requests, session, attempt,
                   proxy, sent_at, t429, calm>>

\* the transport call raises: asyncio.TimeoutError when the session's
\* ClientTimeout(total=self.timeout) passes, or a connection failure; the
\* except clause logs and re-raises
transport_error(t, exception) ==
    /\ pc[t] = "in_flight"
    /\ outcome' = [outcome EXCEPT ![t] = IF exception = "TimeoutError"
                                         THEN "timeout"
                                         ELSE "transport_error"]
    /\ Raise(t, Retryable(exception))
    /\ UNCHANGED <<now, rlVars, pmVars, platform, reported, max_retries,
                   max_concurrent_requests, session, attempt, proxy, sent_at,
                   t429, calm>>

\* response.status < 400
response_ok(t) ==
    /\ pc[t] = "in_flight"
    /\ mark_request_success(platform)
    /\ IF proxy[t] # None
       THEN mark_proxy_success(proxy[t])
       ELSE UNCHANGED <<proxies, working_proxies, failed_proxies, fail_run,
                        evicted, cycle_failed>>
    /\ outcome' = [outcome EXCEPT ![t] = "ok"]
    /\ calm' = [x \in Tasks |-> FALSE]
    /\ pc' = [pc EXCEPT ![t] = "success"]
    /\ semaphore_release
    /\ UNCHANGED <<now, enabled, rate_limits, request_history, burst_count,
                   decay_tasks, acquire_result, granted, use_proxies,
                   last_rotation, current_proxy, cache_file, pm_op, pm_pc,
                   pm_todo, pm_ret, platform, reported, max_retries,
                   max_concurrent_requests, session, attempt, proxy, wake,
                   sent_at, t429>>

\* tenacity's sleep between attempts is over
retry_wait_over(t) ==
    /\ pc[t] = "retry_wait"
    /\ now >= wake[t]
    /\ \E jitter \in Jitters(RateLimitFor(platform)) :
            BeginAttempt(t, attempt[t] + 1, jitter)
    /\ UNCHANGED <<now, rlVars, platform, reported, max_retries,
                   max_concurrent_requests, session, sem, outcome, t429, calm>>

Sleeping == {t \in Tasks : pc[t] \in {"rate_wait", "retry_wait"}}

\* the clock moves to the end of the earliest sleep; a sleep that is over
\* resumes before the clock moves on
clock ==
    /\ Sleeping # {}
    /\ \A t \in Sleeping : wake[t] > now
    /\ \E t \in Sleeping :
        /\ \A x \in Sleeping : wake[t] <= wake[x]
        /\ now' = wake[t]
    /\ UNCHANGED <<rlVars, pmVars, dVars>>

\* BaseScraper(platform, use_proxies, max_retries, max_concurrent_requests)
Scraper(p, up, mr, mc) ==
    [platform |-> p, use_proxies |-> up, max_retries |-> mr,
     max_concurrent_requests |-> mc]

\* scrapers explored: one platform of each built-in cooldown period with
\* the default arguments and no proxies, and one that uses proxies
Scrapers ==
    {Scraper(p, FALSE, 3, 5) : p \in {"general", "twitter", "facebook", "instagram"}}
    \cup {Scraper("general", TRUE, 2, 1)}

\* without proxies no ProxyManager is built and no cache file is read
Init ==
    /\ now = 0
    /\ RLInit
    /\ \E c \in Scrapers :
        /\ platform = c.platform
        /\ use_proxies = c.use_proxies
        /\ max_retries = c.max_retries
        /\ max_concurrent_requests = c.max_concurrent_requests
    /\ PMInit
    /\ ~use_proxies => cache_file = NoCache
    /\ DInit

\* another validation cycle is started only while the working list is short
MayRotate == use_proxies => Len(working_proxies) <= MaxWorking

RECURSIVE SumTo(_, _)
SumTo(f, n) == IF n = 0 THEN 0 ELSE f[n] + SumTo(f, n - 1)

\* another attempt is within the bound of the run
MayAttempt == SumTo(attempt, NumTasks) < MaxAttempts

Initialize == MayRotate /\ scraper_initialize

\* the calls are numbered in the order they are made
MakeRequest ==
    /\ MayRotate
    /\ \E t \in Tasks :
        /\ \A x \in Tasks : x < t => pc[x] # "pending"
        /\ MayAttempt
        /\ make_request(t)

RateWaitOver == MayRotate /\ \E t \in Tasks : rate_wait_over(t)

FetchReturns == \E t \in Tasks, down \in SUBSET Sources : fetch_returns(t, down)

ValidateReturns ==
    \E t \in Tasks, url \in Urls, ok \in BOOLEAN : validate_returns(t, url, ok)

RotationReturns == \E t \in Tasks : rotation_returns(t)

Response429 == \E t \in Tasks : response_429(t)

ResponseError == \E t \in Tasks : response_error(t)

TransportError ==
    \E t \in Tasks, e \in {"ClientConnectionError", "TimeoutError"} :
        transport_error(t, e)

ResponseOk == \E t \in Tasks : response_ok(t)

RetryWaitOver == MayRotate /\ MayAttempt /\ \E t \in Tasks : retry_wait_over(t)

Clock == clock

Next ==
    \/ Initialize
    \/ MakeRequest
    \/ RateWaitOver
    \/ FetchReturns
    \/ ValidateReturns
    \/ RotationReturns
    \/ Response429
    \/ ResponseError
    \/ TransportError
    \/ ResponseOk
    \/ RetryWaitOver
    \/ Clock

Spec == Init /\ [][Next]_vars

(***************************************************************************)
(* The RateLimiter driven directly through its interface                   *)
(***************************************************************************)
\* instants at which calls are made: the first seconds, and the minutes of
\* the first hours
Instants ==
    {s * Second : s \in 0..MaxSec}
    \cup {m * Minute + h * Hour : m \in 0..MaxMin, h \in 0..MaxHour}

\* asyncio runs a timer that is overdue before anything scheduled later:
\* no call is made at an instant past the due time of a pending decrement
NoOverdue == \A t \in BagToSet(decay_tasks) : t[2] >= now

\* the clock moves to a later instant
RLAdvance ==
    /\ \E t \in Instants : t > now /\ now' = t
    /\ UNCHANGED <<rlVars, pmVars, dVars>>

InBackoffBound(b) == RLeq(b, <<MaxMult, 1>>) /\ b[2] <= MaxDen

RLAcquire ==
    /\ NoOverdue
    /\ BagCardinality(decay_tasks) < MaxTasks
    /\ \E k \in RLKeys : acquire(k)
    /\ UNCHANGED <<pmVars, dVars>>

RLDecay ==
    /\ \E t \in BagToSet(decay_tasks) : _reset_burst_count(t)
    /\ UNCHANGED <<pmVars, dVars>>

RLMarkSuccess ==
    /\ NoOverdue
    /\ \E k \in RLKeys :
        /\ InBackoffBound(SuccessBackoff(backoff_multiplier[k]))
        /\ mark_request_success(k)
        /\ UNCHANGED <<now, pmVars, dVars, enabled, rate_limits, request_history,
                       burst_count, decay_tasks, acquire_result, granted>>

RLMarkFailed ==
    /\ NoOverdue
    /\ \E k \in RLKeys, e \in {"rate_limit", "timeout"} :
        /\ InBackoffBound(FailedBackoff(backoff_multiplier[k], e))
        /\ mark_request_failed(k, e)
        /\ UNCHANGED <<now, pmVars, dVars, enabled, rate_limits, request_history,
                       burst_count, decay_tasks, acquire_result, granted>>

RLReset ==
    /\ NoOverdue
    /\ \E k \in RLKeys :
        /\ reset(k)
        /\ granted' = [granted EXCEPT ![k] = <<>>]
        /\ UNCHANGED <<now, pmVars, dVars, enabled, rate_limits, decay_tasks,
                       acquire_result>>

RLResetAll ==
    /\ NoOverdue
    /\ reset_all
    /\ granted' = [k \in Keys |-> <<>>]
    /\ UNCHANGED <<now, pmVars, dVars, enabled, rate_limits, decay_tasks, acquire_result>>

\* configuration precedes use: a key is (re)configured while it is fresh
RLSetRateLimit ==
    /\ NoOverdue
    /\ \E k \in RLKeys, rl \in CustomLimits :
        /\ \A x \in RLKeys : granted[x] = <<>>
        /\ RateLimitFor(k) # rl
        /\ set_rate_limit(k, rl)
        /\ UNCHANGED <<now, pmVars, dVars, enabled, request_history, last_request_time,
                       burst_count, backoff_multiplier, decay_tasks,
                       acquire_result, granted>>

\* the scraper that is not running in SpecRL and SpecPM
Idle ==
    /\ platform = "general"
    /\ max_retries = 3
    /\ max_concurrent_requests = 5
    /\ DInit

InitRL ==
    /\ now = 0
    /\ RLInit
    /\ use_proxies = TRUE
    /\ PMInit
    /\ cache_file = NoCache
    /\ Idle

NextRL ==
    \/ RLAdvance
    \/ RLAcquire
    \/ RLDecay
    \/ RLMarkSuccess
    \/ RLMarkFailed
    \/ RLReset
    \/ RLResetAll
    \/ RLSetRateLimit

SpecRL == InitRL /\ [][NextRL]_vars

(***************************************************************************)
(* C1: for every destination key the number of requests acquire() granted  *)
(* in the trailing minute never exceeds requests_per_minute, in the        *)
(* trailing hour requests_per_hour, in the trailing day requests_per_day.  *)
(***************************************************************************)
C1_WindowCeilings ==
    \A k \in Keys :
        LET rl == RateLimitFor(k) IN
        /\ CountAfter(granted[k], now - Minute) <= rl.requests_per_minute
        /\ CountAfter(granted[k], now - Hour) <= rl.requests_per_hour
        /\ CountAfter(granted[k], now - Day) <= rl.requests_per_day

(***************************************************************************)
(* The ProxyManager driven directly through its interface                  *)
(***************************************************************************)
\* the task that calls the ProxyManager
PMTasks == {1}

InitPM == now = 0 /\ RLInit /\ use_proxies = TRUE /\ PMInit /\ Idle

PMInitialize ==
    /\ \E t \in PMTasks : Len(working_proxies) <= MaxWorking /\ initialize(t)
    /\ UNCHANGED <<now, rlVars, dVars>>

PMGetProxy ==
    /\ \E t \in PMTasks : Len(working_proxies) <= MaxWorking /\ get_proxy(t)
    /\ UNCHANGED <<now, rlVars, dVars>>

PMFetch ==
    /\ \E t \in PMTasks, down \in SUBSET Sources :
            _fetch_proxies(t, FetchResults(down))
    /\ UNCHANGED <<now, rlVars, dVars>>

PMValidate ==
    /\ \E t \in PMTasks, url \in Urls, ok \in BOOLEAN : validate_proxy(t, url, ok)
    /\ UNCHANGED <<now, rlVars, dVars>>

PMValidationComplete ==
    /\ \E t \in PMTasks : validation_complete(t)
    /\ UNCHANGED <<now, rlVars, dVars>>

\* the reports of one kind recorded in a list of proxy records
RECURSIVE Reports(_, _)
Reports(items, field) ==
    IF items = <<>> THEN 0 ELSE Head(items)[field] + Reports(Tail(items), field)

\* requests report on proxies that get_proxy handed to them
HandedOut == {pm_ret[t] : t \in Tasks} \cap Urls

PMMarkFailed ==
    /\ \E url \in HandedOut :
        /\ Reports(proxies, "fail_count") < MaxFailures
        /\ mark_proxy_failed(url)
    /\ UNCHANGED <<now, rlVars, dVars, use_proxies, last_rotation, current_proxy,
                   cache_file, pm_op, pm_pc, pm_todo, pm_ret>>

PMMarkSuccess ==
    /\ \E url \in HandedOut :
        /\ Reports(proxies, "success_count") < MaxSuccess
        /\ mark_proxy_success(url)
    /\ UNCHANGED <<now, rlVars, dVars, use_proxies, last_rotation, current_proxy,
                   cache_file, pm_op, pm_pc, pm_todo, pm_ret>>

NextPM ==
    \/ PMInitialize
    \/ PMGetProxy
    \/ PMFetch
    \/ PMValidate
    \/ PMValidationComplete
    \/ PMMarkFailed
    \/ PMMarkSuccess

SpecPM == InitPM /\ [][NextPM]_vars

(***************************************************************************)
(* C3: once max_proxy_retries consecutive mark_proxy_failed calls have     *)
(* been made for an address, get_proxy cannot return it (it is not in the  *)
(* working list) until a validation cycle re-admits it.                    *)
(***************************************************************************)
C3_EvictedStaysOut ==
    \A url \in evicted : url \notin Range(working_proxies)

(***************************************************************************)
(* C4: a proxy that failed every test endpoint of a completed validation   *)
(* cycle is not in the working list, and a get_proxy whose validation      *)
(* cycle failed every known proxy returns None.                            *)
(***************************************************************************)
C4_FailedValidationNotWorking ==
    \A t \in Tasks :
        pm_pc[t] = "idle" =>
            /\ cycle_failed[t] \cap Range(working_proxies) = {}
            /\ (/\ pm_op[t] = "get_proxy"
                /\ proxies # <<>>
                /\ cycle_failed[t] = UrlsOf(proxies)) => pm_ret[t] = None

(***************************************************************************)
(* Properties of the dispatcher, checked under Spec                        *)
(***************************************************************************)

\* tasks whose latest transport call has been entered
Dispatched == {t \in Tasks : sent_at[t] # DatetimeMin}

\* the shortest spacing the limiter can compute for the scraper's key:
\* cooldown_period x 1.0 with the jitter at its lower end
MinSpacing == JitteredDelay(RateLimitFor(platform), ROne, 0 - RateLimitFor(platform).jitter_range)

\* C2: every request awaits wait_if_needed before its transport call, and no
\* two transport calls on the scraper's key are entered closer together than
\* cooldown_period x backoff_multiplier less the jitter fraction
C2_SpacedDispatch ==
    \A t, u \in Dispatched :
        t # u =>
            \/ sent_at[t] - sent_at[u] >= MinSpacing
            \/ sent_at[u] - sent_at[t] >= MinSpacing

\* C5: with proxies required, no transport call is entered without a proxy
C5_NoDirectSend ==
    use_proxies => \A t \in Tasks : pc[t] = "in_flight" => proxy[t] # None

\* the step in which task t receives its response or its transport error
Completes(t) == pc[t] = "in_flight" /\ pc'[t] # "in_flight"

\* the 429 of the previous attempt is followed by attempt number two or later
Retried429(t) ==
    /\ pc[t] = "in_flight"
    /\ attempt[t] >= 2
    /\ outcome[t] = "429"

\* a 429 is reported to the limiter once: the multiplier doubles once
C6_ReportedOnce ==
    \A t \in Tasks :
        Completes(t) /\ outcome'[t] = "429" =>
            backoff_multiplier'[platform] =
                FailedBackoff(backoff_multiplier[platform], "rate_limit")

\* a response below 400 ends the call with success
C6_OkSucceeds == \A t \in Tasks : outcome[t] = "ok" => pc[t] = "success"

\* C6 as stated: after a 429 on an attempt that is not the last the failure
\* is reported once, the next transport call starts no earlier than
\* cooldown_period x 2 after the 429 for every platform and every jitter, and
\* a 200 on that attempt makes the call return success
C6_RetryAfterTwiceCooldown ==
    /\ [](\A t \in Tasks :
            Retried429(t) =>
                sent_at[t] - t429[t] >= 2 * RateLimitFor(platform).cooldown_period)
    /\ []C6_OkSucceeds
    /\ [][C6_ReportedOnce]_vars

\* C6 amended: the next transport call starts no earlier than
\* cooldown_period x 2 x (1 - jitter_range) after the 429, provided no
\* success was reported on the key since the 429; the rest as stated
C6_RetryAfterJitteredCooldown ==
    /\ [](\A t \in Tasks :
            Retried429(t) /\ calm[t] =>
                sent_at[t] - t429[t] >=
                    JitteredDelay(RateLimitFor(platform), <<2, 1>>,
                                  0 - RateLimitFor(platform).jitter_range))
    /\ []C6_OkSucceeds
    /\ [][C6_ReportedOnce]_vars

\* the retry on instagram that starts 5.4 s after its 429
C6_Witness ==
    \E t \in Tasks :
        /\ Retried429(t)
        /\ calm[t]
        /\ platform = "instagram"
        /\ sent_at[t] - t429[t] = 540

\* C7: a response of 400 or above other than 429 is fatal: the call fails
\* at once and no further attempt is made
C7_HttpErrorFatal ==
    \A t \in Tasks : outcome[t] = "http_error" => pc[t] = "failed"

\* C8: a transport error multiplies the key's backoff multiplier by 1.5
\* (capped) and leaves the proxy's fail_count and the working list alone
C8_TransportErrorReported ==
    [][\A t \in Tasks :
        Completes(t) /\ outcome'[t] \in {"transport_error", "timeout"} =>
            /\ backoff_multiplier'[platform] =
                    FailedBackoff(backoff_multiplier[platform], "timeout")
            /\ proxies' = proxies
            /\ working_proxies' = working_proxies]_vars

\* the proxy record task t's request went through, 0 when there is none
Carrier(t) == IF proxy[t] = None THEN 0 ELSE FirstIndex(proxies, proxy[t], 1)

\* C9: a 429 is reported as a rate_limit failure to the limiter and, when a
\* proxy carried the request, as a failure to the proxy; a status below 400
\* is reported as a success to the limiter and, when a proxy carried the
\* request, to the proxy
C9_BothReported ==
    [][\A t \in Tasks :
        /\ Completes(t) /\ outcome'[t] = "429" =>
            /\ backoff_multiplier'[platform] =
                    FailedBackoff(backoff_multiplier[platform], "rate_limit")
            /\ last_request_time'[platform] = now
            /\ Carrier(t) # 0 =>
                /\ proxies'[Carrier(t)].fail_count =
                        proxies[Carrier(t)].fail_count + 1
                /\ ~proxies'[Carrier(t)].is_working
                /\ proxies'[Carrier(t)].fail_count >= max_proxy_retries =>
                        proxy[t] \notin Range(working_proxies')
        /\ Completes(t) /\ outcome'[t] = "ok" =>
            /\ backoff_multiplier'[platform] =
                    SuccessBackoff(backoff_multiplier[platform])
            /\ Carrier(t) # 0 =>
                /\ proxies'[Carrier(t)].success_count =
                        proxies[Carrier(t)].success_count + 1
                /\ proxies'[Carrier(t)].is_working
                /\ proxy[t] \in Range(working_proxies')]_vars

\* one request answered 429 and another answered 200, both through a proxy
C9_Witness ==
    \E t, u \in Tasks :
        /\ outcome[t] = "429" /\ pc[t] \in {"retry_wait", "failed"}
        /\ Carrier(t) # 0
        /\ RLess(ROne, backoff_multiplier[platform])
        /\ outcome[u] = "ok"
        /\ Carrier(u) # 0

\* C10: one call of make_request makes at most max_retries attempts
C10_AtMostMaxRetries == \A t \in Tasks : attempt[t] <= max_retries

\* C11: when the caller's time limit passes inside the transport call, the
\* call ends at once with the timeout and makes none of its remaining
\* attempts
C11_DeadlineEndsCall ==
    \A t \in Tasks : outcome[t] = "timeout" => pc[t] = "failed"

\* calls that hold a slot of the semaphore
Admitted == {t \in Tasks : pc[t] \notin {"pending", "success", "failed"}}

\* C12: the calls past admission, and so the transport calls in flight,
\* never number more than max_concurrent_requests
C12_AdmissionBound ==
    /\ Cardinality(Admitted) <= max_concurrent_requests
    /\ Cardinality({t \in Tasks : pc[t] = "in_flight"}) <= max_concurrent_requests
    /\ sem = max_concurrent_requests - Cardinality(Admitted)

\* every slot is taken and a further call waits for admission
C12_Witness ==
    /\ sem = 0
    /\ Cardinality(Admitted) = max_concurrent_requests
    /\ \E u \in Tasks : pc[u] = "pending"

(***************************************************************************)
(* The dispatcher when every transport call and every wait terminates      *)
(***************************************************************************)

\* the transport call of task t returns or raises
Responds(t) ==
    \/ response_429(t)
    \/ response_error(t)
    \/ response_ok(t)
    \/ \E e \in {"ClientConnectionError", "TimeoutError"} : transport_error(t, e)

\* the event loop runs every callback that is ready, sleeps end, and the
\* requests to the proxy sources, the test urls and the destination return
Fairness ==
    /\ WF_vars(Initialize)
    /\ WF_vars(MakeRequest)
    /\ WF_vars(RateWaitOver)
    /\ WF_vars(FetchReturns)
    /\ WF_vars(ValidateReturns)
    /\ WF_vars(RotationReturns)
    /\ WF_vars(RetryWaitOver)
    /\ WF_vars(Clock)
    /\ \A t \in Tasks : WF_vars(Responds(t))

SpecLive == Init /\ [][Next]_vars /\ Fairness

Terminal == {"success", "failed"}

\* the steps of one call: the limiter's wait and the proxy selection are
\* passed through at once when there is nothing to wait for
Lifecycle ==
    { <<"pending", "rate_wait">>, <<"pending", "proxy_select">>,
      <<"pending", "in_flight">>,
      <<"rate_wait", "proxy_select">>, <<"rate_wait", "in_flight">>,
      <<"proxy_select", "in_flight">>,
      <<"in_flight", "success">>, <<"in_flight", "retry_wait">>,
      <<"in_flight", "failed">>,
      <<"retry_wait", "rate_wait">>, <<"retry_wait", "proxy_select">>,
      <<"retry_wait", "in_flight">> }

\* the run has used up the attempts or the proxy list length explored
Exhausted == ~MayAttempt \/ ~MayRotate

GetProxyReturns(t) ==
    \/ pm_op[t] = "get_proxy" /\ pm_pc[t] = "validating" /\ pm_pc'[t] = "idle"
    \/ pm_pc[t] = "idle" /\ pm_pc'[t] = "idle" /\ pm_ret'[t] # pm_ret[t]

\* C14: what get_proxy returns is in the working list at the moment it is
\* chosen (None only when the list is empty), whatever reports and
\* validations came in while the call was waiting
C14_ReturnsWorking ==
    [][\A t \in Tasks :
        GetProxyReturns(t) =>
            IF working_proxies' = <<>>
            THEN pm_ret'[t] = None
            ELSE pm_ret'[t] \in Range(working_proxies')]_vars

\* get_proxy has returned a proxy that had a failure reported before
C14_Witness ==
    \E t \in Tasks :
        /\ pm_op[t] = "get_proxy"
        /\ pm_pc[t] = "idle"
        /\ pm_ret[t] \in Range(working_proxies)
        /\ \E i \in 1..Len(proxies) :
                proxies[i].url = pm_ret[t] /\ proxies[i].fail_count >= 2

(***************************************************************************)
(* A run of rate-limit failures on one key, begun in any state that        *)
(* earlier success and failure reports can have left                       *)
(***************************************************************************)

\* error types mark_request_failed treats as a rate-limit hit
RateLimitErrors == {"rate_limit", "429", "too_many_requests"}

\* <<backoff_multiplier, last_request_time>> of a key after at most n
\* reports on a fresh limiter at time now = 0
RECURSIVE ReportedStates(_)
ReportedStates(n) ==
    IF n = 0 THEN {<<ROne, DatetimeMin>>}
    ELSE LET S == ReportedStates(n - 1) IN
         S \cup {<<SuccessBackoff(x[1]), x[2]>> : x \in S}
           \cup {<<FailedBackoff(x[1], "rate_limit"), 0>> : x \in S}
           \cup {<<FailedBackoff(x[1], "timeout"), x[2]>> : x \in S}

InitBackoff ==
    /\ now = 0
    /\ enabled = TRUE
    /\ rate_limits = BuiltinRateLimits
    /\ request_history = [k \in Keys |-> <<>>]
    /\ burst_count = [k \in Keys |-> 0]
    /\ decay_tasks = EmptyBag
    /\ acquire_result = <<None, None>>
    /\ granted = [k \in Keys |-> <<>>]
    /\ \E x \in ReportedStates(MaxReports) :
        /\ backoff_multiplier = [k \in Keys |-> IF k \in RLKeys THEN x[1] ELSE ROne]
        /\ last_request_time = [k \in Keys |-> IF k \in RLKeys THEN x[2] ELSE DatetimeMin]
    /\ use_proxies = TRUE
    /\ PMInit
    /\ cache_file = NoCache
    /\ Idle

\* the next rate-limit failure of the run
BackoffFailed ==
    /\ \E k \in RLKeys, e \in RateLimitErrors : mark_request_failed(k, e)
    /\ UNCHANGED <<now, pmVars, dVars, enabled, rate_limits, request_history,
                   burst_count, decay_tasks, acquire_result, granted>>

NextBackoff == BackoffFailed

SpecBackoff == InitBackoff /\ [][NextBackoff]_vars

\* C15: across consecutive rate-limit failures on a key with no success in
\* between, the backoff multiplier never decreases and never exceeds
\* max_backoff
C15_BackoffMonotoneCapped ==
    /\ [][\A k \in Keys :
            /\ RLeq(backoff_multiplier[k], backoff_multiplier'[k])
            /\ RLeq(backoff_multiplier'[k], max_backoff)]_vars
    /\ [](\A k \in Keys : RLeq(backoff_multiplier[k], max_backoff))

\* six connection failures (1.5 ^ 6) and then the first rate-limit failure
\* of a run: the multiplier has doubled to 729/32
C15_Witness ==
    \E k \in RLKeys :
        /\ backoff_multiplier[k] = <<729, 32>>
        /\ last_request_time[k] = now

(***************************************************************************)
(* Properties of the RateLimiter, checked under SpecRL                     *)
(***************************************************************************)

\* what acquire(k) returns in the current state
AcquireAnswer(k) ==
    IF ~enabled THEN "True"
    ELSE IF BackoffKeyError(k) THEN "KeyError"
    ELSE IF _is_in_backoff(k) \/ ~_check_rate_limits(k, RateLimitFor(k))
    THEN "False"
    ELSE "True"

\* the state reset(k) leaves for key k
JustReset(k) ==
    /\ request_history[k] = <<>>
    /\ burst_count[k] = 0
    /\ backoff_multiplier[k] = ROne
    /\ last_request_time[k] = DatetimeMin

\* C16: reset(k) leaves a state in which acquire(k) returns true at once,
\* whatever the history, burst counter, backoff multiplier and pending
\* burst decrements were before
C16_ColdStartAllowed ==
    /\ [][\A k \in Keys :
            granted[k] # <<>> /\ granted'[k] = <<>> => JustReset(k)']_vars
    /\ [](\A k \in Keys : JustReset(k) => AcquireAnswer(k) = "True")
    /\ [][\A k \in Keys :
            /\ JustReset(k)
            /\ acquire_result' # acquire_result
            /\ acquire_result'[1] = k
            => /\ acquire_result'[2] = "True"
               /\ granted'[k] = <<now>>]_vars

\* acquire was granted right after a reset, with the burst decrement of a
\* request from before the reset still pending
C16_Witness ==
    \E k \in RLKeys :
        /\ acquire_result = <<k, "True">>
        /\ granted[k] = <<now>>
        /\ request_history[k] = <<now>>
        /\ burst_count[k] = 1
        /\ BagCardinality(decay_tasks) >= 2

\* only acquire calls made at this instant on a fresh key k so far: each
\* grant is in the history and in the burst counter, nothing else is
BackToBack(k) ==
    /\ backoff_multiplier[k] = ROne
    /\ request_history[k] = granted[k]
    /\ \A i \in 1..Len(granted[k]) : granted[k][i] = now
    /\ burst_count[k] = Len(granted[k])

\* requests_per_minute = burst_limit = n for key k
Square(k) == RateLimitFor(k).requests_per_minute = RateLimitFor(k).burst_limit

\* C17: with requests_per_minute = burst_limit = n, acquire calls issued
\* back to back on a fresh key return true for the first n and false for
\* call n + 1
C17_BurstOfN ==
    /\ [](\A k \in Keys :
            Square(k) /\ BackToBack(k) =>
                AcquireAnswer(k) =
                    IF Len(granted[k]) < RateLimitFor(k).requests_per_minute
                    THEN "True" ELSE "False")
    /\ [][\A k \in Keys :
            /\ Square(k) /\ BackToBack(k)
            /\ acquire_result' # acquire_result
            /\ acquire_result'[1] = k
            => acquire_result'[2] =
                    IF Len(granted[k]) < RateLimitFor(k).requests_per_minute
                    THEN "True" ELSE "False"]_vars

\* the spec's case: requests_per_minute = burst_limit = 2, two calls were
\* granted and the third, at the same instant, was refused
C17_Witness ==
    \E k \in RLKeys :
        /\ RateLimitFor(k).requests_per_minute = 2
        /\ RateLimitFor(k).burst_limit = 2
        /\ RateLimitFor(k).cooldown_period = 1 * Second
        /\ BackToBack(k)
        /\ Len(granted[k]) = 2
        /\ acquire_result = <<k, "False">>

(***************************************************************************)
(* Health reports of concurrent callers. mark_proxy_failed and             *)
(* mark_proxy_success contain no await and mark_request_success and        *)
(* mark_request_failed are plain functions: on the event loop each call    *)
(* runs from its first statement to its last before another callback runs, *)
(* so concurrent calls are the interleavings of whole calls.               *)
(***************************************************************************)
\* the key the callers report on
HealthKeys == {"general"}

\* error types the callers pass: the one make_request passes, one of the
\* connection kind, and one mark_request_failed has no branch for
HealthErrors == {"rate_limit", "timeout", "http_error"}

\* a ProxyManager that loaded known proxies from its cache; nobody has
\* reported yet
InitHealth ==
    /\ now = 0
    /\ RLInit
    /\ use_proxies = TRUE
    /\ PMInit
    /\ proxies # <<>>
    /\ Idle

\* what the health reports leave alone
HealthFrame ==
    UNCHANGED <<now, enabled, rate_limits, request_history, burst_count,
                decay_tasks, acquire_result, granted, use_proxies,
                last_rotation, current_proxy, cache_file, pm_op, pm_pc,
                pm_todo, pm_ret, platform, max_retries,
                max_concurrent_requests, session, sem, pc, attempt, proxy,
                wake, outcome, sent_at, t429, calm>>

HealthProxyFailed ==
    /\ \E url \in UrlsOf(proxies) :
        /\ Reports(proxies, "fail_count") < MaxFailures
        /\ mark_proxy_failed(url)
        /\ reported' = [reported EXCEPT !.fail[url] = @ + 1]
    /\ UNCHANGED <<backoff_multiplier, last_request_time>>
    /\ HealthFrame

HealthProxySuccess ==
    /\ \E url \in UrlsOf(proxies) :
        /\ Reports(proxies, "success_count") < MaxSuccess
        /\ mark_proxy_success(url)
        /\ reported' = [reported EXCEPT !.success[url] = @ + 1]
    /\ UNCHANGED <<backoff_multiplier, last_request_time>>
    /\ HealthFrame

HealthRequestFailed ==
    /\ \E k \in HealthKeys, error_type \in HealthErrors :
        /\ Len(reported.log[k]) < MaxLog
        /\ mark_request_failed(k, error_type)
        /\ reported' = [reported EXCEPT !.log[k] = Append(@, error_type)]
    /\ UNCHANGED <<proxies, working_proxies, failed_proxies, fail_run,
                   evicted, cycle_failed>>
    /\ HealthFrame

HealthRequestSuccess ==
    /\ \E k \in HealthKeys :
        /\ Len(reported.log[k]) < MaxLog
        /\ mark_request_success(k)
        /\ reported' = [reported EXCEPT !.log[k] = Append(@, "success")]
    /\ UNCHANGED <<proxies, working_proxies, failed_proxies, fail_run,
                   evicted, cycle_failed>>
    /\ HealthFrame

NextHealth ==
    \/ HealthProxyFailed
    \/ HealthProxySuccess
    \/ HealthRequestFailed
    \/ HealthRequestSuccess

SpecHealth == InitHealth /\ [][NextHealth]_vars

\* the multiplier that results from b when the reports of log are applied
\* one after the other
RECURSIVE Replay(_, _)
Replay(b, log) ==
    IF log = <<>> THEN b
    ELSE Replay(IF Head(log) = "success" THEN SuccessBackoff(b)
                ELSE FailedBackoff(b, Head(log)),
                Tail(log))

\* C18: no health report is lost: whatever the order of the calls, the
\* fail_count of a known proxy has grown by the number of mark_proxy_failed
\* calls made for it and its success_count by the number of
\* mark_proxy_success calls, and the backoff multiplier of a key is the one
\* that results from applying every mark_request_failed and
\* mark_request_success call made on it
C18_NoLostReport ==
    /\ \A url \in UrlsOf(proxies) :
        /\ CountOf(proxies, url, "fail_count") =
                CountOf(CachedProxies(cache_file), url, "fail_count")
                + reported.fail[url]
        /\ CountOf(proxies, url, "success_count") =
                CountOf(CachedProxies(cache_file), url, "success_count")
                + reported.success[url]
    /\ \A k \in Keys :
            backoff_multiplier[k] = Replay(<<1, 1>>, reported.log[k])

\* two failures and a success were reported on p1 and three reports of
\* different kinds on the key
C18_Witness ==
    /\ reported.fail["p1"] = 2
    /\ reported.success["p1"] = 1
    /\ \E k \in HealthKeys :
        /\ Len(reported.log[k]) = 3
        /\ {"rate_limit", "timeout", "success"} \subseteq Range(reported.log[k])

(***************************************************************************)
(* The ProxyManager with its proxy sources observed: initialize and        *)
(* get_proxy run their fetch and validation cycles while any subset of the *)
(* four sources fails                                                      *)
(***************************************************************************)
SrcFetch ==
    /\ \E t \in PMTasks, down \in SUBSET Sources :
        /\ _fetch_proxies(t, FetchResults(down))
        /\ reported' = [reported EXCEPT !.down = down]
    /\ UNCHANGED <<now, rlVars, platform, max_retries,
                   max_concurrent_requests, session, sem, pc, attempt, proxy,
                   wake, outcome, sent_at, t429, calm>>

NextSources ==
    \/ PMInitialize
    \/ PMGetProxy
    \/ SrcFetch
    \/ PMValidate
    \/ PMValidationComplete

SpecSources == InitPM /\ [][NextSources]_vars

\* the addresses the sources outside down list
Candidates(down) == UNION {Range(SourceList(i)) : i \in Sources \ down}

\* the gather of _fetch_proxies of task t returns
Fetched(t) == pm_pc[t] = "fetching" /\ pm_pc'[t] = "validating"

\* no address is listed twice
NoDuplicate(items) ==
    \A i, j \in 1..Len(items) : items[i].url = items[j].url => i = j

StalenessBound == 7 * Day

\* the constructor has returned and no operation has been started since
Started == \A t \in Tasks : pm_op[t] = None /\ pm_pc[t] = "idle"

\* C20: a cache file whose timestamp is older than the staleness bound
\* contributes no proxy to the known list or to the working list that the
\* constructor builds
C20_StaleCacheNotLoaded ==
    Started /\ cache_file.exists
        /\ now - cache_file.timestamp > StalenessBound =>
        proxies = <<>> /\ working_proxies = <<>>

(***************************************************************************)
(* Keys without an entry in rate_limits                                    *)
(***************************************************************************)
\* C21: no RateLimiter operation raises for a key that has no entry in
\* rate_limits: acquire answers from the 'general' limits, also once the key
\* has a backoff multiplier above 1.0
C21_UnknownKeyNeverRaises == acquire_result[2] # "KeyError"

(***************************************************************************)
(* Eviction and the failures since the last success                        *)
(***************************************************************************)
\* C22: a proxy leaves the working list only when the mark_proxy_failed
\* calls made for it since its latest mark_proxy_success have reached
\* max_proxy_retries; with fewer it stays
C22_EvictedAtThresholdSinceSuccess ==
    [][\A url \in Urls :
        url \in Range(working_proxies) /\ url \notin Range(working_proxies')
            => fail_run'[url] >= max_proxy_retries]_vars

(***************************************************************************)
(* Repeated success reports                                                *)
(***************************************************************************)
\* C23: mark_request_success is idempotent: in every reachable state, a
\* second call right after the first leaves the multiplier of the key (the
\* only field the call assigns) as the first call left it
C23_SuccessIdempotent ==
    \A k \in Keys :
        SuccessBackoff(SuccessBackoff(backoff_multiplier[k]))
            = SuccessBackoff(backoff_multiplier[k])

(***************************************************************************)
(* What acquire changes, on a limiter that can be switched off and on      *)
(***************************************************************************)
RLDisable ==
    /\ NoOverdue
    /\ enabled
    /\ disable
    /\ UNCHANGED <<now, pmVars, dVars, rate_limits, request_history,
                   last_request_time, burst_count, backoff_multiplier,
                   decay_tasks, acquire_result, granted>>

RLEnable ==
    /\ NoOverdue
    /\ ~enabled
    /\ enable
    /\ UNCHANGED <<now, pmVars, dVars, rate_limits, request_history,
                   last_request_time, burst_count, backoff_multiplier,
                   decay_tasks, acquire_result, granted>>

NextAcquire ==
    \/ RLAdvance
    \/ RLAcquire
    \/ RLDecay
    \/ RLMarkFailed
    \/ RLSetRateLimit
    \/ RLDisable
    \/ RLEnable

SpecAcquire == InitRL /\ [][NextAcquire]_vars

\* a call of acquire(k) has returned r (a step that changes neither the
\* latest answer nor anything else shows nothing)
Answered(k, r) ==
    /\ acquire_result' = <<k, r>>
    /\ acquire_result' # acquire_result \/ granted'[k] # granted[k]

\* nothing of the key's limiter state has changed, no decrement is scheduled
KeyUntouched(k) ==
    /\ request_history'[k] = request_history[k]
    /\ last_request_time'[k] = last_request_time[k]
    /\ burst_count'[k] = burst_count[k]
    /\ backoff_multiplier'[k] = backoff_multiplier[k]
    /\ decay_tasks' = decay_tasks

\* one timestamp is appended (the deque drops its oldest entry when full),
\* the burst counter grows by one, one decrement is scheduled for the key
Recorded(k) ==
    /\ \/ request_history'[k] = Append(request_history[k], now)
       \/ /\ Len(request_history[k]) = HistMaxLen
          /\ request_history'[k] = Append(Tail(request_history[k]), now)
    /\ last_request_time'[k] = now
    /\ burst_count'[k] = burst_count[k] + 1
    /\ backoff_multiplier'[k] = backoff_multiplier[k]
    /\ BagCardinality(decay_tasks') = BagCardinality(decay_tasks) + 1
    /\ LET due == now + RateLimitFor(k).cooldown_period IN
            decay_tasks' = decay_tasks (+) SetToBag({<<k, due>>})

\* C24 as stated: a call of acquire that returns false changes nothing, and
\* every call that returns true records the request
C24_RecordsIffTrue ==
    [][\A k \in RLKeys :
        /\ Answered(k, "False") => KeyUntouched(k)
        /\ Answered(k, "True") => Recorded(k)]_vars

\* C24: a call of acquire that returns false changes nothing; on an enabled
\* limiter a call that returns true appends one timestamp, adds one to the
\* burst counter and schedules one decrement; on a disabled limiter the
\* call returns true and changes nothing
C24_RecordsIffTrueEnabled ==
    [][\A k \in RLKeys :
        /\ Answered(k, "False") => enabled /\ KeyUntouched(k)
        /\ Answered(k, "True") /\ enabled => Recorded(k)
        /\ Answered(k, "True") /\ ~enabled => KeyUntouched(k)]_vars

\* a granted call was recorded, a later call was refused, and the limiter
\* is now switched off
C24_Witness ==
    /\ ~enabled
    /\ \E k \in RLKeys :
        /\ acquire_result = <<k, "False">>
        /\ granted[k] # <<>>
        /\ burst_count[k] > 0

(***************************************************************************)
(* The burst counter when requests stop: the clock is the event loop's,    *)
(* which wakes the sleeping _reset_burst_count task that is due first      *)
(***************************************************************************)
\* the earliest asyncio.sleep of a pending decrement ends
DecayAdvance ==
    /\ \E t \in BagToSet(decay_tasks) :
        /\ \A u \in BagToSet(decay_tasks) : t[2] <= u[2]
        /\ t[2] > now
        /\ now' = t[2]
    /\ UNCHANGED <<rlVars, pmVars, dVars>>

\* requests arrive during the first seconds only
DecayAcquire == now <= MaxSec * Second /\ RLAcquire

NextDecay ==
    \/ DecayAcquire
    \/ DecayAdvance
    \/ RLDecay
    \/ RLReset
    \/ RLResetAll
    \/ RLSetRateLimit

\* every asyncio.sleep ends and the event loop runs the task it wakes
SpecDecay ==
    InitRL /\ [][NextDecay]_vars /\ WF_vars(DecayAdvance) /\ WF_vars(RLDecay)

\* C25: the burst counter of a key is never negative, and once requests
\* have stopped the scheduled decrements alone bring it back to 0 for good
C25_BurstDecays ==
    /\ [](\A k \in Keys : burst_count[k] >= 0)
    /\ \A k \in Keys : <>[](burst_count[k] = 0)

\* after requests granted at two different instants the counter is back at
\* 0 and no decrement is pending
C25_Witness ==
    /\ decay_tasks = EmptyBag
    /\ \E k \in RLKeys :
        /\ burst_count[k] = 0
        /\ Len(granted[k]) >= 2
        /\ granted[k][1] < granted[k][Len(granted[k])]

(***************************************************************************)
(* A run of successes on one key, begun in any state that earlier reports  *)
(* can have left                                                           *)
(***************************************************************************)
\* the key the successes are reported on
RecoverKeys == {"general"}

InitRecover ==
    /\ now = 0
    /\ enabled = TRUE
    /\ rate_limits = BuiltinRateLimits
    /\ request_history = [k \in Keys |-> <<>>]
    /\ burst_count = [k \in Keys |-> 0]
    /\ decay_tasks = EmptyBag
    /\ acquire_result = <<None, None>>
    /\ granted = [k \in Keys |-> <<>>]
    /\ \E x \in [RecoverKeys -> ReportedStates(MaxFailed)] :
        /\ backoff_multiplier =
                [k \in Keys |-> IF k \in RecoverKeys THEN x[k][1] ELSE ROne]
        /\ last_request_time =
                [k \in Keys |-> IF k \in RecoverKeys THEN x[k][2]
                                                      ELSE DatetimeMin]
    /\ use_proxies = TRUE
    /\ PMInit
    /\ cache_file = NoCache
    /\ Idle

\* the next success of the run, reported while the multiplier is above 1.0
RecoverSuccess ==
    /\ \E k \in RecoverKeys :
        /\ RLess(ROne, backoff_multiplier[k])
        /\ mark_request_success(k)
        /\ reported' = [reported EXCEPT !.log[k] = Append(@, "success")]
    /\ UNCHANGED <<proxies, working_proxies, failed_proxies, fail_run,
                   evicted, cycle_failed>>
    /\ HealthFrame

\* time passes between the reports of the run
NextRecover == RecoverSuccess \/ RLAdvance

\* the successes keep being reported
SpecRecover == InitRecover /\ [][NextRecover]_vars /\ WF_vars(RecoverSuccess)

\* C26: the multiplier is never below 1.0, and a run of successes with no
\* failure in between brings it to exactly 1.0 after finitely many calls;
\* from then on acquire is not refused
C26_BackoffRecovers ==
    /\ [](\A k \in Keys : RLeq(ROne, backoff_multiplier[k]))
    /\ <>[](\A k \in RecoverKeys :
                backoff_multiplier[k] = ROne /\ AcquireAnswer(k) = "True")

\* ten successes have brought the multiplier back to 1.0 on a key whose
\* latest rate-limit hit is not a cooldown period ago
C26_Witness ==
    \E k \in RecoverKeys :
        /\ Len(reported.log[k]) = 10
        /\ backoff_multiplier[k] = ROne
        /\ last_request_time[k] = 0
        /\ now < RateLimitFor(k).cooldown_period

(***************************************************************************)
(* The working list of ProxyManager, checked under SpecPM                  *)
(***************************************************************************)
\* C27: every proxy of the working list has is_working = TRUE, so a proxy
\* marked not working by mark_proxy_failed or by a failed validation cannot
\* be picked by get_proxy
C27_WorkingListIsWorking ==
    \A url \in Range(working_proxies) :
        LET i == FirstIndex(proxies, url, 1) IN
        i # 0 => proxies[i].is_working

\* C28: the working list holds each address at most once
C28_WorkingListDistinct ==
    \A i, j \in 1..Len(working_proxies) :
        working_proxies[i] = working_proxies[j] => i = j

(***************************************************************************)
(* The burst counter of one built-in key under acquire, reset and the      *)
(* pending _reset_burst_count tasks, with instants closer together than    *)
(* the key's cooldown_period                                               *)
(***************************************************************************)
\* the key the calls are made on: cooldown_period 2.0
BurstKeys == {"twitter"}

\* requests arrive during the first seconds only
BurstAcquire ==
    /\ NoOverdue
    /\ now <= MaxSec * Second
    /\ BagCardinality(decay_tasks) < MaxTasks
    /\ \E k \in BurstKeys : acquire(k)
    /\ UNCHANGED <<pmVars, dVars>>

BurstReset ==
    /\ NoOverdue
    /\ \E k \in BurstKeys :
        /\ reset(k)
        /\ granted' = [granted EXCEPT ![k] = <<>>]
        /\ UNCHANGED <<now, pmVars, dVars, enabled, rate_limits, decay_tasks,
                       acquire_result>>

\* time passes, to the next instant or to the end of a pending sleep,
\* whichever comes first
BurstAdvance ==
    /\ \E t \in Instants \cup {u[2] : u \in BagToSet(decay_tasks)} :
        /\ t > now
        /\ \A u \in BagToSet(decay_tasks) : u[2] >= now => t <= u[2]
        /\ now' = t
    /\ UNCHANGED <<rlVars, pmVars, dVars>>

NextBurst ==
    \/ BurstAcquire
    \/ BurstReset
    \/ RLResetAll
    \/ RLDecay
    \/ BurstAdvance

SpecBurst == InitRL /\ [][NextBurst]_vars

\* a decrement whose sleep has ended has not run yet
DecrementDue == \E t \in BagToSet(decay_tasks) : t[2] <= now

\* C29: whenever no decrement is due, the burst counter of a key is the
\* number of requests granted on it, since it was last reset, within the
\* last cooldown_period
C29_BurstCountsRecentGrants ==
    ~DecrementDue =>
        \A k \in Keys :
            burst_count[k]
                = CountAfter(granted[k], now - RateLimitFor(k).cooldown_period)

(***************************************************************************)
(* The dispatcher when the tasks that run make_request can be cancelled    *)
(***************************************************************************)
\* a cancellation that leaves the slot of the call taken
cancelled_holding(t) ==
    /\ pc[t] \notin {"success", "failed"}
    /\ pc' = [pc EXCEPT ![t] = "failed"]
    /\ outcome' = [outcome EXCEPT ![t] = "cancelled"]
    /\ UNCHANGED sem
    /\ IF pc[t] = "proxy_select"
       THEN /\ pm_pc' = [pm_pc EXCEPT ![t] = "idle"]
            /\ pm_todo' = [pm_todo EXCEPT ![t] = {}]
       ELSE UNCHANGED <<pm_pc, pm_todo>>
    /\ UNCHANGED <<now, rlVars, use_proxies, proxies, working_proxies,
                   failed_proxies, last_rotation, current_proxy, cache_file,
                   pm_op, pm_ret, fail_run, evicted, cycle_failed, platform,
                   max_retries, max_concurrent_requests, session, attempt,
                   proxy, wake, sent_at, t429, calm, reported>>

\* CancelledError is raised in the task of make_request where it is
\* suspended: waiting for the semaphore it holds no slot; inside
\* 'async with self.semaphore' the exit releases the slot, and a rotation
\* awaited by get_proxy is abandoned
cancelled(t) ==
    /\ pc[t] \notin {"success", "failed"}
    /\ pc' = [pc EXCEPT ![t] = "failed"]
    /\ outcome' = [outcome EXCEPT ![t] = "cancelled"]
    /\ IF pc[t] = "pending" THEN UNCHANGED sem ELSE semaphore_release
    /\ IF pc[t] = "proxy_select"
       THEN /\ pm_pc' = [pm_pc EXCEPT ![t] = "idle"]
            /\ pm_todo' = [pm_todo EXCEPT ![t] = {}]
       ELSE UNCHANGED <<pm_pc, pm_todo>>
    /\ UNCHANGED <<now, rlVars, use_proxies, proxies, working_proxies,
                   failed_proxies, last_rotation, current_proxy, cache_file,
                   pm_op, pm_ret, fail_run, evicted, cycle_failed, platform,
                   max_retries, max_concurrent_requests, session, attempt,
                   proxy, wake, sent_at, t429, calm, reported>>

Cancelled == \E t \in Tasks : cancelled(t)

NextCancel == Next \/ Cancelled

\* the fairness of SpecLive; nothing obliges a cancellation to happen
SpecCancel == Init /\ [][NextCancel]_vars /\ Fairness

\* C30: each call gives its slot back exactly once when it ends, however it
\* ends; with no call active every slot is free; and a waiting caller is
\* admitted in the end (within the attempts explored)
C30_NoSlotLeak ==
    /\ [](Admitted = {} => sem = max_concurrent_requests)
    /\ [][sem' - sem = Cardinality(Admitted) - Cardinality(Admitted')]_vars
    /\ \A t \in Tasks : <>(pc[t] # "pending" \/ Exhausted)

\* with one slot, the first call was cancelled after it had entered a
\* transport call, and the call that waited behind it was admitted and has
\* succeeded
C30_Witness ==
    /\ max_concurrent_requests = 1
    /\ sem = 1
    /\ \E t, u \in Tasks :
        /\ t < u
        /\ outcome[t] = "cancelled"
        /\ sent_at[t] # DatetimeMin
        /\ pc[u] = "success"

====
